---- MODULE Spec2Model ----
(***************************************************************************)
(* A model of tAPI, the todo service of src/app: the API-key gate of       *)
(* core/security.py, the request schemas of schemas.py, the Todo table of  *)
(* models.py and the five /todos handlers of api/todos.py, plus /health    *)
(* of main.py.                                                             *)
(*                                                                         *)
(* Spec      serves requests one at a time (each action is a whole         *)
(*           request: key check, schema validation, handler, commit).      *)
(* SpecConc  runs PATCH and DELETE handlers of several workers             *)
(*           interleaved at their database round trips.                    *)
(***************************************************************************)
EXTENDS Integers, Sequences, FiniteSets, TLC

\* Bound: requests served in one behaviour; also the range of the clock.
MaxTime == 3

\* Bound: concurrent workers of SpecConc.
MaxWorkers == 2

\* The uuid4 values the model draws from, and a path id that is no UUID.
IDs == {"u1", "u2"}
MalformedId == "not-a-uuid"

----------------------------------------------------------------------------
\* Optional values.  A JSON member or a nullable column is Unset (the key is
\* absent), Null, or V(x).

Unset == <<"unset">>
Null == <<"null">>
V(x) == <<"val", x>>
IsVal(v) == Len(v) = 2
Val(v) == v[2]

Min(a, b) == IF a <= b THEN a ELSE b

----------------------------------------------------------------------------
\* core/security.py

\* settings.API_KEY, the configured key (ASCII).
API_KEY == <<"k", "y">>

\* Characters of a header value as starlette decodes it (latin-1): ASCII
\* letters, the ASCII space, and two code points above 0x7f, one of which
\* (the no-break space) str.strip() treats as whitespace.
IsSpace(c) == c \in {" ", "nbsp"}
IsAscii(c) == c \notin {"e'", "nbsp"}

RECURSIVE LStrip(_)
LStrip(s) == IF s # <<>> /\ IsSpace(Head(s)) THEN LStrip(Tail(s)) ELSE s

RECURSIVE RStrip(_)
RStrip(s) ==
    IF s # <<>> /\ IsSpace(s[Len(s)]) THEN RStrip(SubSeq(s, 1, Len(s) - 1)) ELSE s

\* str.strip()
Strip(s) == RStrip(LStrip(s))

\* secrets.compare_digest on two str: TypeError unless both are ASCII.
CompareDigest(a, b) ==
    IF \E i \in 1..Len(a) : ~IsAscii(a[i]) THEN "TypeError"
    ELSE IF \E i \in 1..Len(b) : ~IsAscii(b[i]) THEN "TypeError"
    ELSE IF a = b THEN "equal" ELSE "differ"

\* A bug to test the claims against: the comparison is skipped.
GetApiKey_NoCompare(h) ==
    IF h = Null \/ Val(h) = <<>> THEN 401 ELSE 200

\* get_api_key: the status the dependency ends the request with, 200 when
\* it returns the key.  h is Null (no X-API-Key header) or V(chars).
GetApiKey(h) ==
    IF h = Null \/ Val(h) = <<>> THEN 401
    ELSE LET c == CompareDigest(Strip(Val(h)), API_KEY) IN
         IF c = "TypeError" THEN 500
         ELSE IF c = "differ" THEN 403
         ELSE 200

----------------------------------------------------------------------------
\* schemas.py, models.py

\* The members of a request body the model distinguishes: the seven fields of
\* TodoUpdate, and two members no schema declares.
BodyKeys ==
    {"title", "description", "due_at", "estimated_minutes", "status",
     "priority", "tags", "id", "created_at"}

\* Fields of TodoCreate and of TodoUpdate.
CreateFields ==
    {"title", "description", "due_at", "estimated_minutes", "priority", "tags"}
UpdateFields == CreateFields \cup {"status"}

\* The columns of the todo table.
Columns == UpdateFields \cup {"id", "created_at", "updated_at"}

\* Field(..., ge=1, le=5), Field(..., ge=0), Query(100, le=1000)
PriorityMin == 1
PriorityMax == 5
EstimateMin == 0
DefaultPriority == 3
DefaultLimit == 100
LimitCeiling == 1000

\* Optional[int] = Field(..., ge=lo, le=hi): None passes.
IntFieldOk(v, lo, hi) == IsVal(v) => (Val(v) >= lo /\ Val(v) <= hi)

EstimateOk(v) == IsVal(v) => Val(v) >= EstimateMin

PriorityOk(v) == IntFieldOk(v, PriorityMin, PriorityMax)

\* TodoCreate validation: title is a required str; the rest is optional.
TodoCreateValid(p) ==
    /\ IsVal(p.title)
    /\ EstimateOk(p.estimated_minutes)
    /\ PriorityOk(p.priority)

\* TodoUpdate validation: every field optional and nullable.
TodoUpdateValid(p) ==
    /\ EstimateOk(p.estimated_minutes)
    /\ PriorityOk(p.priority)

\* A bug to test the claims against: the caller's priority is dropped.
CreateDump_DropPriority(p, k) ==
    IF k = "priority" THEN V(DefaultPriority)
    ELSE IF p[k] = Unset THEN Null ELSE p[k]

\* item.model_dump()[k] for a field k of TodoCreate: unset fields take the
\* schema's default.
CreateDump(p, k) ==
    IF p[k] # Unset THEN p[k]
    ELSE IF k = "priority" THEN V(DefaultPriority)
    ELSE Null

\* Todo(**item.model_dump()): status, id, created_at and updated_at come from
\* the table model's defaults.
NewTodo(p, id, t) ==
    [k \in Columns |->
        IF k \in CreateFields THEN CreateDump(p, k)
        ELSE IF k = "status" THEN V("todo")
        ELSE IF k = "id" THEN id
        ELSE IF k = "created_at" THEN t
        ELSE Null]

\* The keys of patch.model_dump(exclude_unset=True).
UpdateDumpKeys(p) == {k \in UpdateFields : p[k] # Unset}

\* A bug to test the claims against: model_dump() without exclude_unset, so
\* that every field the body leaves out is written as None.
Patched_NoExclude(row, p, t) ==
    [k \in Columns |->
        IF k \in UpdateFields THEN (IF p[k] = Unset THEN Null ELSE p[k])
        ELSE IF k = "updated_at" THEN V(t)
        ELSE row[k]]

\* The attribute assignments of update_todo on a loaded row.
Patched(row, p, t) ==
    [k \in Columns |->
        IF k \in UpdateDumpKeys(p) THEN p[k]
        ELSE IF k = "updated_at" THEN V(t)
        ELSE row[k]]

\* The table's NOT NULL columns (title: str; id and created_at never change).
NotNullOk(row) == row.title # Null

----------------------------------------------------------------------------
\* The store: the set of rows of the todo table.

Find(st, id) == {r \in st : r.id = id}

Lower(c) == IF c = "A" THEN "a" ELSE IF c = "B" THEN "b" ELSE c

LowerSeq(s) == [i \in 1..Len(s) |-> Lower(s[i])]

\* SQL LIKE on lower-cased operands: % matches any run, _ any one character.
RECURSIVE LikeMatch(_, _)
LikeMatch(p, t) ==
    IF p = <<>> THEN t = <<>>
    ELSE IF Head(p) = "%"
        THEN LikeMatch(Tail(p), t) \/ (t # <<>> /\ LikeMatch(p, Tail(t)))
    ELSE IF Head(p) = "_"
        THEN t # <<>> /\ LikeMatch(Tail(p), Tail(t))
    ELSE t # <<>> /\ Head(t) = Head(p) /\ LikeMatch(Tail(p), Tail(t))

\* Todo.title.ilike(f"%{q}%")
TitleILike(title, q) ==
    LikeMatch(<<"%">> \o LowerSeq(q) \o <<"%">>, LowerSeq(title))

\* cast(Todo.tags, JSONB) @> jsonb_build_array(tag)
TagsContain(tags, tag) ==
    IsVal(tags) /\ \E i \in 1..Len(Val(tags)) : Val(tags)[i] = tag

\* Python truthiness of an Optional[str] query parameter ("if q:"): None and
\* the empty string are false.  q is a sequence of characters; tag and
\* status are atoms, "" the empty one.
TruthySeq(v) == IsVal(v) /\ Val(v) # <<>>
TruthyStr(v) == IsVal(v) /\ Val(v) # ""

\* The WHERE clause list_todos builds.
Selected(row, query) ==
    /\ TruthySeq(query.q) => TitleILike(Val(row.title), Val(query.q))
    /\ TruthyStr(query.tag) => TagsContain(row.tags, Val(query.tag))
    /\ TruthyStr(query.status) => row.status = query.status

\* limit: int = Query(100, le=1000)
LimitOf(query) == IF query.limit = Unset THEN DefaultLimit ELSE Val(query.limit)

\* A bug to test the claims against: the ceiling is not enforced.
LimitValid_NoCeiling(query) == TRUE

LimitValid(query) == LimitOf(query) <= LimitCeiling

----------------------------------------------------------------------------
\* api/todos.py, main.py: the handlers.  Each yields the set of outcomes the
\* request can have: the status code, the rows of the response body (none,
\* one, or a list's), and the store it leaves.

Outcome(code, body, st) == [code |-> code, body |-> body, store |-> st]

\* POST /todos/ with header h and body p; id and t are what uuid4() and
\* datetime.now() return.  An id already in the table violates the primary
\* key and the commit raises.
CreateTodo(st, h, p, id, t) ==
    IF GetApiKey(h) # 200 THEN {Outcome(GetApiKey(h), {}, st)}
    ELSE IF ~TodoCreateValid(p) THEN {Outcome(422, {}, st)}
    ELSE IF Find(st, id) # {} THEN {Outcome(500, {}, st)}
    ELSE {Outcome(201, {NewTodo(p, id, t)}, st \cup {NewTodo(p, id, t)})}

\* The rows a SELECT ... WHERE ... LIMIT n without ORDER BY may return: any n
\* of the selected rows, or all of them when there are fewer.
Limited(rows, n) ==
    {S \in SUBSET rows : Cardinality(S) = Min(n, Cardinality(rows))}

\* GET /todos/.  PostgreSQL rejects a negative LIMIT and the query raises.
ListTodos(st, h, query) ==
    IF GetApiKey(h) # 200 THEN {Outcome(GetApiKey(h), {}, st)}
    ELSE IF ~LimitValid(query) THEN {Outcome(422, {}, st)}
    ELSE IF LimitOf(query) < 0 THEN {Outcome(500, {}, st)}
    ELSE {Outcome(200, S, st) :
            S \in Limited({r \in st : Selected(r, query)}, LimitOf(query))}

\* GET /todos/{item_id}.  Every stored row passes TodoRead (title is never
\* NULL, priority and estimated_minutes are in range or NULL), so shaping the
\* response does not fail.
GetTodo(st, h, id) ==
    IF GetApiKey(h) # 200 THEN {Outcome(GetApiKey(h), {}, st)}
    ELSE IF id \notin IDs THEN {Outcome(422, {}, st)}
    ELSE IF Find(st, id) = {} THEN {Outcome(404, {}, st)}
    ELSE {Outcome(200, Find(st, id), st)}

\* PATCH /todos/{item_id}.  A NULL in a NOT NULL column fails the commit; the
\* session rolls back.
UpdateTodo(st, h, id, p, t) ==
    IF GetApiKey(h) # 200 THEN {Outcome(GetApiKey(h), {}, st)}
    ELSE IF id \notin IDs \/ ~TodoUpdateValid(p) THEN {Outcome(422, {}, st)}
    ELSE IF Find(st, id) = {} THEN {Outcome(404, {}, st)}
    ELSE LET old == CHOOSE r \in Find(st, id) : TRUE
             new == Patched(old, p, t)
         IN  IF ~NotNullOk(new) THEN {Outcome(500, {}, st)}
             ELSE {Outcome(200, {new}, (st \ {old}) \cup {new})}

\* A bug to test the claims against: deleting a missing row succeeds.
DeleteTodo_NoLookup(st, h, id) ==
    IF GetApiKey(h) # 200 THEN {Outcome(GetApiKey(h), {}, st)}
    ELSE IF id \notin IDs THEN {Outcome(422, {}, st)}
    ELSE {Outcome(204, {}, st \ Find(st, id))}

\* DELETE /todos/{item_id}
DeleteTodo(st, h, id) ==
    IF GetApiKey(h) # 200 THEN {Outcome(GetApiKey(h), {}, st)}
    ELSE IF id \notin IDs THEN {Outcome(422, {}, st)}
    ELSE IF Find(st, id) = {} THEN {Outcome(404, {}, st)}
    ELSE {Outcome(204, {}, st \ Find(st, id))}

\* GET /health: no dependency, no store access.
Health(st) == {Outcome(200, {}, st)}

----------------------------------------------------------------------------
\* The requests the model sends.

NoBody == [k \in BodyKeys |-> Unset]
Body(p, k, v) == [p EXCEPT ![k] = v]

NoQuery == [q |-> Unset, tag |-> Unset, status |-> Unset, limit |-> Unset]

Request(op, h, id, body, query) ==
    [op |-> op, header |-> h, id |-> id, body |-> body, query |-> query]

\* X-API-Key values: absent, empty, the key, the key padded with blanks, the
\* key followed by a no-break space, a wrong key, a blank, and a value with a
\* non-ASCII character.
Headers ==
    {Null, V(<<>>), V(API_KEY), V(<<" ", "k", "y", " ">>),
     V(<<"k", "y", "nbsp">>), V(<<"k">>), V(<<" ">>), V(<<"e'">>)}

\* The headers sent with a request of each kind beside the key itself.
OtherHeaders == {Null, V(<<"k">>), V(<<"e'">>)}

\* Bodies of POST /todos/.
ValidCreateBodies ==
    {Body(Body(NoBody, "title", V(<<"B", "m">>)), "tags", V(<<"home">>)),
     [NoBody EXCEPT !.title = V(<<"b", "b">>), !.description = V("d"),
                    !.due_at = V(7), !.estimated_minutes = V(0),
                    !.priority = V(1), !.tags = V(<<"work", "home">>),
                    !.status = V("done"), !.id = V("u2")],
     Body(Body(NoBody, "title", V(<<>>)), "priority", Null)}

InvalidCreateBodies ==
    {NoBody,
     Body(NoBody, "title", Null),
     Body(Body(NoBody, "title", V(<<"a">>)), "priority", V(6)),
     Body(Body(NoBody, "title", V(<<"a">>)), "estimated_minutes", V(-1))}

PostRequests ==
    {Request("POST", V(API_KEY), "-", p, NoQuery) :
        p \in ValidCreateBodies \cup InvalidCreateBodies}
    \cup {Request("POST", h, "-",
                  Body(NoBody, "title", V(<<"B", "m">>)), NoQuery) :
            h \in OtherHeaders}

\* Bodies of PATCH /todos/{id}: each field alone and null; four fields alone
\* with a value; no field; two fields; members TodoUpdate does not declare;
\* values out of range.
UpdateBodies ==
    {Body(NoBody, k, Null) : k \in UpdateFields}
    \cup {Body(NoBody, "title", V(<<"A", "_">>)),
          Body(NoBody, "status", V("done")),
          Body(NoBody, "priority", V(5)),
          Body(NoBody, "tags", V(<<"work">>)),
          NoBody,
          Body(NoBody, "title", V(<<>>)),
          Body(Body(NoBody, "estimated_minutes", V(30)), "due_at", V(9)),
          [NoBody EXCEPT !.id = V("u2"), !.created_at = V(0),
                         !.description = V("e")],
          Body(NoBody, "priority", V(6)),
          Body(NoBody, "priority", V(0)),
          Body(NoBody, "estimated_minutes", V(-1))}

PatchRequests ==
    {Request("PATCH", V(API_KEY), id, p, NoQuery) :
        id \in IDs, p \in UpdateBodies}
    \cup {Request("PATCH", h, id, p, NoQuery) :
            h \in OtherHeaders, id \in {"u1"},
            p \in {Body(NoBody, "status", V("done")),
                   Body(NoBody, "priority", V(6))}}
    \cup {Request("PATCH", V(API_KEY), MalformedId,
                  Body(NoBody, "status", V("done")), NoQuery)}

\* Queries of GET /todos/: the filters in every combination, the empty
\* filters, and limits around the default and the ceiling.
Queries ==
    {[q |-> q, tag |-> tag, status |-> st, limit |-> Unset] :
        q \in {Unset, V(<<"b">>), V(<<"_">>)},
        tag \in {Unset, V("home")},
        st \in {Unset, V("done")}}
    \cup {[NoQuery EXCEPT !.q = V(<<>>)], [NoQuery EXCEPT !.tag = V("")],
          [NoQuery EXCEPT !.status = V("")]}
    \cup {[NoQuery EXCEPT !.limit = V(n)] :
            n \in {-1, 0, 1, LimitCeiling, LimitCeiling + 1, 5 * LimitCeiling}}

ListRequests ==
    {Request("LIST", V(API_KEY), "-", NoBody, query) : query \in Queries}
    \cup {Request("LIST", h, "-", NoBody, query) :
            h \in OtherHeaders,
            query \in {NoQuery, [NoQuery EXCEPT !.limit = V(5 * LimitCeiling)]}}

GetRequests ==
    {Request("GET", h, "u1", NoBody, NoQuery) : h \in Headers}
    \cup {Request("GET", V(API_KEY), id, NoBody, NoQuery) :
            id \in {"u2", MalformedId}}
    \cup {Request("GET", Null, MalformedId, NoBody, NoQuery)}

DeleteRequests ==
    {Request("DELETE", V(API_KEY), id, NoBody, NoQuery) :
        id \in IDs \cup {MalformedId}}
    \cup {Request("DELETE", h, "u1", NoBody, NoQuery) : h \in OtherHeaders}

HealthRequests ==
    {Request("HEALTH", h, "-", NoBody, NoQuery) : h \in {Null, V(API_KEY)}}

----------------------------------------------------------------------------
\* State.

VARIABLES
    store,      \* the rows of the todo table
    now,        \* the clock: datetime.now(timezone.utc)
    req,        \* the request served last
    resp,       \* its response: status code and the rows of the body
    prev,       \* the store when the requests recorded in req / workers began
    created,    \* history: for each id ever created, the POST body it was
                \* created from while the row is "fresh", and no body once
                \* the row is "updated" or "deleted"
    workers     \* SpecConc: each worker's request and its place in the handler

vars == <<store, now, req, resp, prev, created, workers>>

Idle == [pc |-> "idle", op |-> "-", id |-> "-", body |-> NoBody,
         snap |-> {}, code |-> 0]

Init ==
    /\ store = {}
    /\ now = 0
    /\ req = Request("-", Null, "-", NoBody, NoQuery)
    /\ resp = [code |-> 0, body |-> {}]
    /\ prev = {}
    /\ created = {}
    /\ workers = [w \in 1..MaxWorkers |-> Idle]

\* The history with id recorded as created from body p, updated or deleted.
Mark(id, p, state) ==
    {c \in created : c.id # id} \cup {[id |-> id, body |-> p, state |-> state]}

\* One request served from arrival to response.
Serve(r, out, hist) ==
    /\ now' = now + 1
    /\ req' = r
    /\ resp' = [code |-> out.code, body |-> out.body]
    /\ prev' = store
    /\ store' = out.store
    /\ created' = hist
    /\ UNCHANGED workers

Post ==
    /\ now < MaxTime
    /\ \E r \in PostRequests, id \in IDs :
        \E out \in CreateTodo(store, r.header, r.body, id, now) :
            Serve(r, out,
                  IF out.code = 201
                  THEN Mark(id, r.body, "fresh")
                  ELSE created)

List ==
    /\ now < MaxTime
    /\ \E r \in ListRequests :
        \E out \in ListTodos(store, r.header, r.query) :
            Serve(r, out, created)

Get ==
    /\ now < MaxTime
    /\ \E r \in GetRequests :
        \E out \in GetTodo(store, r.header, r.id) :
            Serve(r, out, created)

Patch ==
    /\ now < MaxTime
    /\ \E r \in PatchRequests :
        \E out \in UpdateTodo(store, r.header, r.id, r.body, now) :
            Serve(r, out,
                  IF out.code = 200
                  THEN Mark(r.id, NoBody, "updated")
                  ELSE created)

Delete ==
    /\ now < MaxTime
    /\ \E r \in DeleteRequests :
        \E out \in DeleteTodo(store, r.header, r.id) :
            Serve(r, out,
                  IF out.code = 204
                  THEN Mark(r.id, NoBody, "deleted")
                  ELSE created)

GetHealth ==
    /\ now < MaxTime
    /\ \E r \in HealthRequests :
        \E out \in Health(store) :
            Serve(r, out, created)

Next == Post \/ List \/ Get \/ Patch \/ Delete \/ GetHealth

Spec == Init /\ [][Next]_vars

----------------------------------------------------------------------------
\* Concurrent handlers.  update_todo and delete_todo each make several round
\* trips to the database (the SELECT of session.get, the UPDATE or DELETE
\* with its COMMIT, the SELECT of session.refresh); requests of other
\* workers may commit in between.  Each worker holds the key and a valid body.

WorkerRequests ==
    {Request("PATCH", V(API_KEY), id, p, NoQuery) :
        id \in IDs,
        p \in {Body(NoBody, "status", V("done")),
               Body(NoBody, "title", V(<<"A", "_">>)),
               Body(NoBody, "status", V("todo"))}}
    \cup {Request("DELETE", V(API_KEY), id, NoBody, NoQuery) : id \in IDs}

AllIdle == \A w \in DOMAIN workers : workers[w].pc = "idle"

\* Rows are created while no PATCH or DELETE is in flight.
Seed == AllIdle /\ Post

\* The request arrives and session.get(Todo, item_id) returns: a missing row
\* ends the request with 404.
Begin(w) ==
    /\ workers[w].pc = "idle"
    /\ \E r \in WorkerRequests :
        workers' = [workers EXCEPT ![w] =
            [pc |-> IF Find(store, r.id) = {} THEN "done" ELSE "loaded",
             op |-> r.op, id |-> r.id, body |-> r.body,
             snap |-> Find(store, r.id),
             code |-> IF Find(store, r.id) = {} THEN 404 ELSE 0]]
    /\ prev' = IF AllIdle THEN store ELSE prev
    /\ UNCHANGED <<store, now, req, resp, created>>

\* The columns the unit of work writes: those whose value differs from the
\* loaded one.
Changed(old, new) == {k \in Columns : new[k] # old[k]}

\* update_todo from setattr to session.commit(): UPDATE todo SET <changed
\* columns> WHERE id = :id.  No row matched raises StaleDataError.
CommitUpdate(w) ==
    /\ workers[w].pc = "loaded"
    /\ workers[w].op = "PATCH"
    /\ LET old == CHOOSE r \in workers[w].snap : TRUE
           new == Patched(old, workers[w].body, now)
           cur == Find(store, workers[w].id)
       IN  IF cur = {} \/ ~NotNullOk(new)
           THEN /\ workers' = [workers EXCEPT ![w].pc = "done", ![w].code = 500]
                /\ UNCHANGED store
           ELSE /\ workers' = [workers EXCEPT ![w].pc = "committed"]
                /\ store' = (store \ cur) \cup
                     {[k \in Columns |->
                         IF k \in Changed(old, new) THEN new[k] ELSE r[k]] :
                      r \in cur}
    /\ now' = now + 1
    /\ UNCHANGED <<req, resp, prev, created>>

\* update_todo's session.refresh(todo): a row deleted meanwhile raises
\* InvalidRequestError.
Refresh(w) ==
    /\ workers[w].pc = "committed"
    /\ workers' = [workers EXCEPT
            ![w].pc = "done",
            ![w].snap = Find(store, workers[w].id),
            ![w].code = IF Find(store, workers[w].id) = {} THEN 500 ELSE 200]
    /\ UNCHANGED <<store, now, req, resp, prev, created>>

\* delete_todo from session.delete to session.commit(): DELETE FROM todo
\* WHERE id = :id.  No row matched is a warning, not an error.
CommitDelete(w) ==
    /\ workers[w].pc = "loaded"
    /\ workers[w].op = "DELETE"
    /\ store' = store \ Find(store, workers[w].id)
    /\ workers' = [workers EXCEPT ![w].pc = "done", ![w].code = 204]
    /\ UNCHANGED <<now, req, resp, prev, created>>

NextConc ==
    \/ Seed
    \/ \E w \in DOMAIN workers : Begin(w)
    \/ \E w \in DOMAIN workers : CommitUpdate(w)
    \/ \E w \in DOMAIN workers : Refresh(w)
    \/ \E w \in DOMAIN workers : CommitDelete(w)

SpecConc == Init /\ [][NextConc]_vars

----------------------------------------------------------------------------
\* The claims.  They speak of the request served last (req), its response
\* (resp), the store before it (prev) and after it (store).

TodoOps == {"POST", "LIST", "GET", "PATCH", "DELETE"}

\* The header carries the configured key, blanks around it aside.
Authorized(h) == h # Null /\ Strip(Val(h)) = API_KEY

\* The time at which the last request was served.
ServedAt == now - 1

Only(S) == CHOOSE r \in S : TRUE

\* C1: for a /todos request the X-API-Key header alone decides: absent or
\* empty gives 401, present and (stripped) different from the key gives 403,
\* and the request passes the gate exactly when the stripped value is the key.
C1_HeaderDecides ==
    req.op \in TodoOps =>
        /\ (req.header = Null \/ req.header = V(<<>>)) => resp.code = 401
        /\ (req.header # Null /\ req.header # V(<<>>)
                /\ ~Authorized(req.header)) => resp.code = 403
        /\ Authorized(req.header) <=> resp.code \notin {401, 403, 500}

C3_PatchFrame ==
    (req.op = "PATCH" /\ resp.code = 200) =>
        /\ Cardinality(Find(prev, req.id)) = 1
        /\ Cardinality(Find(store, req.id)) = 1
        /\ LET old == Only(Find(prev, req.id))
               new == Only(Find(store, req.id))
           IN  /\ \A k \in Columns :
                    new[k] = IF k \in UpdateFields /\ req.body[k] # Unset
                                THEN req.body[k]
                             ELSE IF k = "updated_at" THEN V(ServedAt)
                             ELSE old[k]
               /\ store \ {new} = prev \ {old}

\* C3 witness: a PATCH of status alone succeeded on one of two stored items
\* whose status was different before.
C3_Witness ==
    /\ req.op = "PATCH"
    /\ resp.code = 200
    /\ req.body = Body(NoBody, "status", V("done"))
    /\ Cardinality(store) = 2
    /\ \E old \in Find(prev, req.id) : old.status = V("todo")

\* C4: on a stored item, a PATCH that carries a field of TodoUpdate as null
\* answers 200 and leaves the field null; a field the body leaves out keeps
\* its value.
C4_NullClears ==
    (req.op = "PATCH" /\ Authorized(req.header) /\ Find(prev, req.id) # {}) =>
        \A k \in UpdateFields :
            /\ req.body[k] = Null =>
                /\ resp.code = 200
                /\ \A r \in Find(store, req.id) : r[k] = Null
            /\ req.body[k] = Unset =>
                \E r \in Find(store, req.id) : r[k] = Only(Find(prev, req.id))[k]

\* C5 as stated: an authorized list with a limit above the ceiling is
\* clamped and answers 200 with at most LimitCeiling items.
C5_LimitClamped ==
    (req.op = "LIST" /\ Authorized(req.header)
        /\ IsVal(req.query.limit) /\ Val(req.query.limit) > LimitCeiling) =>
            /\ resp.code = 200
            /\ Cardinality(resp.body) <= LimitCeiling

\* C5 amended: an authorized list with a limit above the ceiling is refused
\* with 422, returns no item and leaves the store alone; a list that
\* succeeds returns at most LimitCeiling items.
C5_LimitRejected ==
    /\ (req.op = "LIST" /\ Authorized(req.header)
            /\ IsVal(req.query.limit) /\ Val(req.query.limit) > LimitCeiling) =>
                /\ resp.code = 422
                /\ resp.body = {}
                /\ store = prev
    /\ (req.op = "LIST" /\ resp.code = 200) =>
            Cardinality(resp.body) <= LimitCeiling

\* C5 witness: limit=5000 was refused while the store held items.
C5_Witness ==
    /\ req.op = "LIST"
    /\ Authorized(req.header)
    /\ req.query.limit = V(5 * LimitCeiling)
    /\ resp.code = 422
    /\ store # {}

\* C6 as stated: an authorized GET, PATCH or DELETE of a well-formed id that
\* is not in the store answers 404 and leaves the store as it was.
C6_MissingIs404 ==
    (req.op \in {"GET", "PATCH", "DELETE"} /\ Authorized(req.header)
        /\ req.id \in IDs /\ Find(prev, req.id) = {}) =>
            /\ resp.code = 404
            /\ store = prev

\* C6 amended: the same for GET, DELETE and a PATCH whose body passes
\* TodoUpdate's validation; a PATCH whose body does not is refused with 422.
\* In no case is the answer a server error or the store changed.
C6_MissingIs404Valid ==
    (req.op \in {"GET", "PATCH", "DELETE"} /\ Authorized(req.header)
        /\ req.id \in IDs /\ Find(prev, req.id) = {}) =>
            /\ resp.code =
                 (IF req.op = "PATCH" /\ ~TodoUpdateValid(req.body)
                  THEN 422 ELSE 404)
            /\ resp.body = {}
            /\ store = prev

\* C6 witness: a DELETE answered 404 for an id that had been created and
\* deleted before.
C6_Witness ==
    /\ req.op = "DELETE"
    /\ Authorized(req.header)
    /\ resp.code = 404
    /\ \E c \in created : c.id = req.id /\ c.state = "deleted"

\* Substring: sub occurs in s.
Contains(s, sub) ==
    \E i \in 0..(Len(s) - Len(sub)) : SubSeq(s, i + 1, i + Len(sub)) = sub

\* C7: a successful authorized list returns stored items only, each of which
\* satisfies every filter given: q is a case-insensitive substring of the
\* title, tag is one of the tags, status is the status; there are at most
\* limit of them; and a list with a limit from 0 to the ceiling succeeds,
\* with no item when none matches.
C7_ListFilters ==
    (req.op = "LIST" /\ Authorized(req.header)) =>
        /\ (LimitOf(req.query) >= 0 /\ LimitOf(req.query) <= LimitCeiling)
                => resp.code = 200
        /\ resp.code = 200 =>
            /\ resp.body \subseteq store
            /\ Cardinality(resp.body) <= LimitOf(req.query)
            /\ \A r \in resp.body :
                /\ TruthySeq(req.query.q) =>
                     Contains(LowerSeq(Val(r.title)), LowerSeq(Val(req.query.q)))
                /\ TruthyStr(req.query.tag) =>
                     TagsContain(r.tags, Val(req.query.tag))
                /\ TruthyStr(req.query.status) => r.status = req.query.status

\* The record r agrees with the POST body p it was created from.
MatchesCreate(r, p) ==
    /\ \A k \in CreateFields : p[k] # Unset => r[k] = p[k]
    /\ r.status = V("todo")
    /\ p.priority = Unset => r.priority = V(DefaultPriority)
    /\ r.created_at \in 0..ServedAt
    /\ r.updated_at = Null

\* C8: a successful POST answers 201 with one record whose id no stored item
\* had, which agrees with the body and is added to the store; ids stay
\* unique; and a GET of an item that was neither updated nor deleted since
\* its creation answers 200 with a record that agrees with the creating body.
C8_RoundTrip ==
    /\ (req.op = "POST" /\ resp.code \in 200..299) =>
            /\ resp.code = 201
            /\ Cardinality(resp.body) = 1
            /\ Find(prev, Only(resp.body).id) = {}
            /\ store = prev \cup resp.body
            /\ MatchesCreate(Only(resp.body), req.body)
            /\ Only(resp.body).created_at = ServedAt
    /\ \A r1, r2 \in store : r1.id = r2.id => r1 = r2
    /\ (req.op = "GET" /\ Authorized(req.header)) =>
            \A c \in created :
                (c.id = req.id /\ c.state = "fresh") =>
                    /\ resp.code = 200
                    /\ Cardinality(resp.body) = 1
                    /\ Only(resp.body).id = req.id
                    /\ MatchesCreate(Only(resp.body), c.body)

\* C8 witness: a GET returned an item created from a body that sets every
\* field of TodoCreate, other requests having been served in between.
C8_Witness ==
    /\ req.op = "GET"
    /\ resp.code = 200
    /\ \E c \in created :
        /\ c.id = req.id
        /\ c.state = "fresh"
        /\ \A k \in CreateFields : IsVal(c.body[k])
        /\ Only(resp.body).created_at < ServedAt - 1

\* C9: every stored item has a non-empty title, a priority from 1 to 5 if it
\* has one and an estimate of 0 or more if it has one; a POST or PATCH whose
\* body breaks one of these is refused with 422 or 400 and leaves the store
\* as it was.
C9_StoredValid ==
    /\ \A r \in store :
        /\ IsVal(r.title) /\ Val(r.title) # <<>>
        /\ IsVal(r.priority) => Val(r.priority) \in 1..5
        /\ IsVal(r.estimated_minutes) => Val(r.estimated_minutes) >= 0
    /\ (req.op \in {"POST", "PATCH"} /\ Authorized(req.header)
            /\ req.id \in IDs \cup {"-"}
            /\ \/ req.body.title \in {Null, V(<<>>)}
               \/ req.op = "POST" /\ req.body.title = Unset
               \/ IsVal(req.body.priority) /\ Val(req.body.priority) \notin 1..5
               \/ IsVal(req.body.estimated_minutes)
                    /\ Val(req.body.estimated_minutes) < 0) =>
                /\ resp.code \in {400, 422}
                /\ store = prev

\* All orders in which the workers' requests can be served one at a time.
Orders ==
    {o \in [DOMAIN workers -> DOMAIN workers] :
        \A i, j \in DOMAIN workers : o[i] = o[j] => i = j}

\* The handler of worker w's request, run alone on store st.
Alone(st, w) ==
    IF workers[w].op = "PATCH"
    THEN Only(UpdateTodo(st, V(API_KEY), workers[w].id, workers[w].body, 0))
    ELSE Only(DeleteTodo(st, V(API_KEY), workers[w].id))

\* The store and the status codes after serving the requests one at a time
\* in order o, from its i-th on.
RECURSIVE InTurn(_, _, _, _)
InTurn(st, codes, o, i) ==
    IF i > Cardinality(DOMAIN workers) THEN [store |-> st, codes |-> codes]
    ELSE InTurn(Alone(st, o[i]).store,
                [codes EXCEPT ![o[i]] = Alone(st, o[i]).code], o, i + 1)

\* A store with the times of update forgotten (set or not is kept).
Untimed(st) ==
    {[r EXCEPT !.updated_at = IF r.updated_at = Null THEN Null ELSE V(0)] :
        r \in st}

\* C10: when concurrent PATCH and DELETE requests have all been answered,
\* none ended in a server error, and the status codes and the store are those
\* of serving the same requests one at a time in some order.
C10_Serializable ==
    (\A w \in DOMAIN workers : workers[w].pc = "done") =>
        /\ \A w \in DOMAIN workers : workers[w].code # 500
        /\ \E o \in Orders :
            LET run == InTurn(prev, [w \in DOMAIN workers |-> 0], o, 1)
            IN  /\ \A w \in DOMAIN workers : run.codes[w] = workers[w].code
                /\ Untimed(run.store) = Untimed(store)

\* C10 witness: a PATCH that had loaded the item ended in a server error
\* after a DELETE of the same item was answered 204.
C10_Witness ==
    \E a, b \in DOMAIN workers :
        /\ workers[a].op = "PATCH" /\ workers[a].code = 500
        /\ workers[a].snap # {}
        /\ workers[b].op = "DELETE" /\ workers[b].code = 204
        /\ workers[b].id = workers[a].id

====
